---- MODULE Spec2Model ----
(***************************************************************************)
(* Migration execution and progress tracking of dmbridge.                  *)
(*                                                                         *)
(* The repository holds three variants of runMigration:                    *)
(*   "mock"  - src/unnamed/part_007: the simulated chunk loop              *)
(*   "fetch" - src/src/utils/migrationUtils.ts: one POST, one table        *)
(*   "sse"   - src/unnamed/part_006: POST, then an EventSource stream      *)
(* and one observer, MigrationPage (startMigration / handleCancel), which  *)
(* keeps the progress in its hook state and in the app state.              *)
(*                                                                         *)
(* Around them the wizard of the app: the connections step (part_001),     *)
(* the tables step, the configuration step, which builds the configuration *)
(* with createMigrationTables and createMigrationConfig, and the step      *)
(* indicator of Header.tsx.  Each part has its own specification over the  *)
(* same variables: Spec (one run), NavSpec (a run with navigation),        *)
(* WizardSpec, ConnSpec, FnSpec and TablesSpec (direct calls).             *)
(*                                                                         *)
(* An async function runs atomically between two awaits; the engine's      *)
(* program counter pc names the await (or the onProgress call) it is at.   *)
(* Every onProgress call ends a step, so that each delivered snapshot is   *)
(* a state of the model; the observer's handlers run only while the        *)
(* engine is suspended at an await.                                        *)
(***************************************************************************)
EXTENDS Integers, Sequences, FiniteSets, TLC

\* ---------------------------------------------------------------- bounds
MaxTables == 2            \* config.selectedTables.length ranges over 1..MaxTables
MaxBatchSize == 2         \* config.options.batchSize ranges over 1..MaxBatchSize
MaxChunksProcessed == 2   \* result.chunks_processed of the server's answer
MaxFailures == 2          \* failures injected in one run
MaxEvents == 3            \* messages of the progress stream
MaxOpsTracked == 2        \* chunk operations counted after a cancel request
MaxColumns == 2           \* columns of each table of the source schema
MaxRuns == 2              \* invocations of runMigration that are counted
MaxConnections == 2       \* connection ids the connection form can produce

\* ------------------------------------------------------ program constants
TotalRowsInTable == 5000  \* part_007:114, and the 5000 of part_007:96
RowStep == 100            \* part_007:115, 138, 139
ValidationDelay == 2000   \* part_007:103
ChunkDelay == 100         \* part_007:116
MockBatchSize == 1000     \* part_007:30
CsvBatchSize == 1000000   \* migrationUtils.ts:30, part_006:30

NoTime == -1              \* endTime?: Date is undefined
NoTable == 0              \* currentTable?: string is undefined
NoRow == -1               \* MigrationError.row?: number is undefined

Variants == {"mock", "fetch", "sse"}
Terminal == {"completed", "failed", "canceled"}

\* ------------------------------------------------------------- fractions
\* progress values are quotients of row counts; they are kept exact
Frac(n, d) == [n |-> n, d |-> d]
FracLeq(a, b) == a.n * b.d <= b.n * a.d
FracEq(a, b) == a.n * b.d = b.n * a.d
Zero == Frac(0, 1)
Hundred == Frac(100, 1)

Min(a, b) == IF a < b THEN a ELSE b

VARIABLES
  tables,             \* state.sourceSchema.tables
  currentStep,        \* state.currentStep
  call,               \* the arguments createMigrationConfig was called with
  projection,         \* createMigrationTables: its input and what it returned
  connections,        \* state.connections
  sourceConnection,   \* state.sourceConnection
  destinationConnection, \* state.destinationConnection
  saved,              \* the connections the backend has stored
  job,                \* the config argument of the running runMigration
  runs,               \* how many times runMigration was invoked
  truncated,          \* the destination tables that were cleared
  variant,            \* which runMigration the page imports
  config,             \* state.currentMigration
  pc,                 \* the engine's position
  ledger,             \* runMigration's local `progress`
  i,                  \* part_007: index of the table loop (0-based)
  row,                \* part_007: the row loop's counter
  now,                \* the clock, in ms
  result,             \* the promise runMigration returned
  progress,           \* MigrationPage's hook state
  migrationProgress,  \* state.migrationProgress
  lastSnap,           \* the value of the last snapshot onProgress was given
  prevSnap,           \* the value of the one before
  nSnaps,             \* how many snapshots onProgress was given
  seen,               \* the statuses of the snapshots onProgress was given
  failures,           \* failures that occurred in this run
  chunkOps,           \* chunks the engine processed
  cancelReq,          \* the observer asked to cancel
  opsAfterCancel,     \* chunks the engine processed after that
  events              \* sse: messages received

wizard == <<tables, currentStep, call>>

conn == <<connections, sourceConnection, destinationConnection, saved>>

vars == <<wizard, projection, conn, job, runs, truncated, variant, config, pc, ledger, i, row, now, result, progress,
          migrationProgress, lastSnap, prevSnap, nSnaps, seen, failures,
          chunkOps, cancelReq, opsAfterCancel, events>>

\* ------------------------------------------------------------ the ledger
\* initializeMigrationProgress; the initial status differs per variant
InitStatus(v) == IF v = "fetch" THEN "extracting" ELSE "pending"

initializeMigrationProgress(v, n, t) ==
  [ startTime |-> t,
    endTime |-> NoTime,
    currentTable |-> NoTable,
    processedTables |-> 0,
    totalTables |-> n,
    processedRows |-> 0,
    totalRows |-> 0,
    currentTableProgress |-> Zero,
    overallProgress |-> Zero,
    estimatedTimeRemaining |-> Zero,
    errors |-> << >>,
    status |-> InitStatus(v) ]

\* the value a variable holds before any ledger exists
NoLedger == [initializeMigrationProgress("mock", 0, 0) EXCEPT !.status = "none"]

\* ----------------------------------------------------------- the observer
\* What a React state holds: null, a reference to the engine's own object
\* (part_007 hands the one object it keeps mutating), or an object of its
\* own.  A spread copy shares the errors array of the object it copies.
Null == [ref |-> "null", errAlias |-> FALSE, val |-> NoLedger]
RefLedger == [ref |-> "ledger", errAlias |-> FALSE, val |-> NoLedger]
Value(s) == [ref |-> "value", errAlias |-> FALSE, val |-> s]

\* what reading through a held reference yields in the current state
View(h) ==
  IF h.ref = "ledger" THEN ledger
  ELSE IF h.errAlias THEN [h.val EXCEPT !.errors = ledger.errors]
  ELSE h.val

\* the argument of onProgress: part_007 passes its one mutable object,
\* the other variants a fresh object per call
Handed(v, s) == IF v = "mock" THEN RefLedger ELSE Value(s)

\* the callback of startMigration: setProgress + SET_MIGRATION_PROGRESS;
\* setProgress does nothing once MigrationPage is unmounted
OnProgress(s) ==
  /\ progress' = IF currentStep = "migration" THEN Handed(variant, s) ELSE progress
  /\ migrationProgress' = Handed(variant, s)
  /\ prevSnap' = lastSnap
  /\ lastSnap' = s
  /\ nSnaps' = nSnaps + 1
  /\ seen' = seen \cup {s.status}

NoCallback ==
  UNCHANGED <<progress, migrationProgress, prevSnap, lastSnap, nSnaps, seen>>

\* ------------------------------------------------------------ the wizard
\* an optional value: << >> when omitted, << v >> when given
Omitted == << >>
Given(x) == << x >>

\* the `??` of createMigrationConfig falls back on every falsy value
CoalesceFalsy(x, d) ==
  IF x = Omitted \/ x[1] = FALSE \/ x[1] = 0 THEN d ELSE x[1]

\* createMigrationConfig:  options.x ?? default
Coalesce(x, d) == IF x = Omitted THEN d ELSE x[1]

\* databaseUtils.ts:205-227  a table of the loaded schema: not selected,
\* all its columns selected
LoadedTable(t) ==
  [ name |-> t, schema |-> "dbo", selected |-> FALSE,
    columns |-> [c \in 1..MaxColumns |-> [name |-> c, selected |-> TRUE]] ]

LoadedSchema == [t \in 1..MaxTables |-> LoadedTable(t)]

\* migrationUtils.ts:50, part_007:49 keep the name; part_006:50 appends
\* _migrated
DestinationSuffix(v) == IF v = "sse" THEN "_migrated" ELSE ""

\* the destination name is made unique with a counter of the calls
createMigrationTablesNumbered(v, tbls) ==
  LET IsSelected(x) == x.selected
      Names(columns) == [k \in 1..Len(columns) |-> columns[k].name]
      Unit(t) == [ name |-> t.name,
                   schema |-> t.schema,
                   selectedColumns |-> Names(SelectSeq(t.columns, IsSelected)),
                   destinationTable |->
                     [name |-> t.name,
                      suffix |-> IF projection.outputs = << >>
                                 THEN DestinationSuffix(v) ELSE "_2"] ]
      chosen == SelectSeq(tbls, IsSelected)
  IN  [k \in 1..Len(chosen) |-> Unit(chosen[k])]

\* createMigrationTables, migrationUtils.ts:39-52
createMigrationTables(v, tbls) ==
  LET IsSelected(x) == x.selected
      Names(columns) == [k \in 1..Len(columns) |-> columns[k].name]
      Unit(t) == [ name |-> t.name,
                   schema |-> t.schema,
                   selectedColumns |-> Names(SelectSeq(t.columns, IsSelected)),
                   destinationTable |-> [name |-> t.name, suffix |-> DestinationSuffix(v)] ]
      chosen == SelectSeq(tbls, IsSelected)
  IN  [k \in 1..Len(chosen) |-> Unit(chosen[k])]

\* migrationUtils.ts:30 and part_006:30, part_007:30
DefaultBatchSize(v) == IF v = "mock" THEN MockBatchSize ELSE CsvBatchSize

\* createMigrationConfig, migrationUtils.ts:13-36 (part_007:13-35 has no
\* useCsvExtraction); `tables` is selectedTables.length
createMigrationConfig(v, selectedTables, options) ==
  [ tables |-> Len(selectedTables),
    units |-> selectedTables,
    status |-> "draft",
    truncateBeforeInsert |-> Coalesce(options.truncateBeforeInsert, FALSE),
    batchSize |-> Coalesce(options.batchSize, DefaultBatchSize(v)),
    skipErrors |-> Coalesce(options.skipErrors, FALSE),
    validateBeforeMigration |-> Coalesce(options.validateBeforeMigration, TRUE),
    useCsvExtraction |-> IF v = "mock" THEN Omitted ELSE Given(TRUE) ]

\* state.currentMigration is null; createMigrationConfig was not called
NoConfig ==
  [ tables |-> 0, units |-> << >>, status |-> "null",
    truncateBeforeInsert |-> FALSE, batchSize |-> 0, skipErrors |-> FALSE,
    validateBeforeMigration |-> FALSE, useCsvExtraction |-> Omitted ]
NoCall == [units |-> << >>, options |-> "none"]

\* ProgressTracker.tsx:266-287  the options ConfigurationForm can hold
FormOptions ==
  [ truncateBeforeInsert : {Given(b) : b \in BOOLEAN},
    batchSize : {Given(b) : b \in 1..MaxBatchSize},
    skipErrors : {Given(b) : b \in BOOLEAN},
    validateBeforeMigration : {Given(b) : b \in BOOLEAN},
    useCsvExtraction : {Omitted} ]

\* Partial<MigrationOptions>: what a caller of createMigrationConfig may pass
Optional(S) == {Omitted} \cup {Given(x) : x \in S}

PartialOptions(v) ==
  [ truncateBeforeInsert : Optional(BOOLEAN),
    batchSize : Optional(0..MaxBatchSize),
    skipErrors : Optional(BOOLEAN),
    validateBeforeMigration : Optional(BOOLEAN),
    useCsvExtraction : IF v = "mock" THEN {Omitted} ELSE Optional(BOOLEAN) ]

\* createMigrationTables was not called
NoProjection == [input |-> << >>, outputs |-> << >>]

\* a DatabaseConnection: its id and one of its editable fields
Connection(id, name) == [id |-> id, name |-> name]
NoConnection == Connection(0, 0)

\* both connections were chosen on the connections step (part_001:60-74)
Connected ==
  /\ connections = << Connection(1, 0), Connection(2, 0) >>
  /\ saved = connections
  /\ sourceConnection = Connection(1, 0)
  /\ destinationConnection = Connection(2, 0)

\* the first n tables of the schema selected, with all their columns
FirstSelected(n) ==
  [t \in 1..MaxTables |-> [LoadedTable(t) EXCEPT !.selected = (t <= n)]]

\* the engine and the migration page before a run
Idle ==
  /\ job = NoConfig
  /\ runs = 0
  /\ truncated = {}
  /\ pc = "idle"
  /\ ledger = NoLedger
  /\ i = 0
  /\ row = 0
  /\ now = 0
  /\ result = "none"
  /\ progress = Null
  /\ migrationProgress = Null
  /\ lastSnap = NoLedger
  /\ prevSnap = NoLedger
  /\ nSnaps = 0
  /\ seen = {}
  /\ failures = 0
  /\ chunkOps = 0
  /\ cancelReq = FALSE
  /\ opsAfterCancel = 0
  /\ events = 0

\* the migration step was just entered: ConfigurationPage.tsx:33-46 built
\* the configuration from the selected tables and the form's options
Init ==
  /\ variant \in Variants
  /\ \E n \in 1..MaxTables : tables = FirstSelected(n)
  /\ currentStep = "migration"
  /\ \E options \in FormOptions :
       call = [units |-> createMigrationTables(variant, tables), options |-> options]
  /\ config = createMigrationConfig(variant, call.units, call.options)
  /\ projection = NoProjection
  /\ Connected
  /\ Idle

\* the tables step was just entered with the schema loaded
WizInit ==
  /\ variant \in Variants
  /\ tables = LoadedSchema
  /\ currentStep = "tables"
  /\ call = NoCall
  /\ config = NoConfig
  /\ projection = NoProjection
  /\ Connected
  /\ Idle

\* MigrationPage.tsx:12-21  the effect of the mounted page starts a run
ShouldStart ==
  /\ currentStep = "migration"
  /\ config # NoConfig
  /\ config.status \notin {"completed", "failed"}
  /\ progress.ref = "null"

\* ------------------------------------------------------- part_007 (mock)
\* the total counts one table only
MockTotalRowsOne(n) == TotalRowsInTable

\* part_007:96  selectedTables.reduce((sum, table) => sum + 5000, 0)
MockTotalRows(n) == n * TotalRowsInTable

\* part_007:94-96  the ledger runMigration starts from
MockInitLedger(n, t) ==
  [initializeMigrationProgress("mock", n, t) EXCEPT
     !.status = "in_progress",
     !.totalRows = MockTotalRows(n)]

\* part_007:119  Math.random() < 0.05 && !job.options.skipErrors
ErrorFires(draw, skipErrors) == draw /\ ~skipErrors

\* part_007:120-126  the error entry is pushed
PushError(l, t, r, time) ==
  [l EXCEPT !.errors = Append(@, [table |-> t, row |-> r,
                                  message |-> "mock", timestamp |-> time])]

\* the rows of the failing chunk are counted
FailLedgerCounted(l, time) ==
  [l EXCEPT !.status = "failed", !.endTime = time, !.processedRows = @ + RowStep]

\* the failure is flagged but endTime is left unset
FailLedgerNoEnd(l, time) == [l EXCEPT !.status = "failed"]

\* part_007:130-131  the run is failed
FailLedger(l, time) == [l EXCEPT !.status = "failed", !.endTime = time]

\* the failure is recorded under skipErrors too, but errors keeps only the
\* latest entry
ErrorBranchKeepLast(l, draw, skipErrors, t, r, time) ==
  LET entry == [table |-> t, row |-> r, message |-> "mock", timestamp |-> time]
      pushed == IF draw THEN [l EXCEPT !.errors = << entry >>] ELSE l
      abort == draw /\ ~skipErrors
  IN  [ledger |-> IF abort THEN FailLedger(pushed, time) ELSE pushed,
       abort |-> abort]

\* part_007:119-135  the error branch of the row loop: the ledger it leaves
\* and whether it returns from runMigration
ErrorBranch(l, draw, skipErrors, t, r, time) ==
  LET fires == ErrorFires(draw, skipErrors)
      pushed == IF fires THEN PushError(l, t, r, time) ELSE l
      abort == fires /\ ~skipErrors
  IN  [ledger |-> IF abort THEN FailLedger(pushed, time) ELSE pushed,
       abort |-> abort]

\* part_007:144-150  the estimate, in seconds
Estimate(l, time) ==
  LET elapsedMs == time - l.startTime
      remaining == elapsedMs * (l.totalRows - l.processedRows)
  IN  IF l.processedRows > 0
      THEN IF remaining > 0 THEN Frac(remaining, 1000 * l.processedRows) ELSE Zero
      ELSE l.estimatedTimeRemaining

\* processedRows is assigned the table's row count instead of accumulated
ChunkLedgerPerTable(l, r, time) ==
  LET rowsProcessed == Min(r + RowStep, TotalRowsInTable)
      l1 == [l EXCEPT !.processedRows = rowsProcessed]
      l2 == [l1 EXCEPT
               !.currentTableProgress = Frac(rowsProcessed * 100, TotalRowsInTable),
               !.overallProgress = Frac(l1.processedRows * 100, l1.totalRows)]
  IN  [l2 EXCEPT !.estimatedTimeRemaining = Zero]

\* part_007:138-150  the counters after one chunk
ChunkLedger(l, r, time) ==
  LET rowsProcessed == Min(r + RowStep, TotalRowsInTable)
      l1 == [l EXCEPT !.processedRows = @ + RowStep]
      l2 == [l1 EXCEPT
               !.currentTableProgress = Frac(rowsProcessed * 100, TotalRowsInTable),
               !.overallProgress = Frac(l1.processedRows * 100, l1.totalRows)]
  IN  [l2 EXCEPT !.estimatedTimeRemaining = Estimate(l2, time)]

\* part_007:159-162  the run is completed
CompleteLedger(l, time) ==
  [l EXCEPT !.status = "completed", !.endTime = time,
            !.overallProgress = Hundred, !.estimatedTimeRemaining = Zero]

\* MigrationPage.tsx:12-21 starts the run; part_007:93-97
MockStart ==
  /\ variant = "mock" /\ pc = "idle" /\ ShouldStart
  /\ runs < MaxRuns
  /\ job' = config
  /\ runs' = runs + 1
  /\ ledger' = MockInitLedger(config.tables, now)
  /\ OnProgress(ledger')
  /\ pc' = "afterInit"
  /\ result' = "pending"
  /\ UNCHANGED <<wizard, projection, conn, truncated,
                 variant, config, i, row, now, failures, chunkOps,
                 cancelReq, opsAfterCancel, events>>

\* part_007:100-104
MockValidate ==
  /\ variant = "mock" /\ pc = "afterInit"
  /\ job.validateBeforeMigration
  /\ ledger' = [ledger EXCEPT !.status = "validating"]
  /\ OnProgress(ledger')
  /\ pc' = "awaitValidate"
  /\ UNCHANGED <<wizard, projection, conn, job, runs, truncated,
                 variant, config, i, row, now, result, failures, chunkOps,
                 cancelReq, opsAfterCancel, events>>

\* part_007:107-116  the head of the table loop, up to the first delay
MockTableStart ==
  /\ variant = "mock"
  /\ \/ pc = "afterInit" /\ ~job.validateBeforeMigration /\ now' = now
     \/ pc = "awaitValidate" /\ now' = now + ValidationDelay
     \/ pc = "tableLoop" /\ now' = now
  /\ i < job.tables
  /\ ledger' = [ledger EXCEPT !.currentTable = i + 1,
                              !.currentTableProgress = Zero]
  /\ OnProgress(ledger')
  /\ row' = 0
  /\ pc' = "awaitChunk"
  /\ UNCHANGED <<wizard, projection, conn, job, runs, truncated,
                 variant, config, i, result, failures, chunkOps,
                 cancelReq, opsAfterCancel, events>>

\* part_007:116-155  one pass of the row loop, after its delay
MockChunk(draw) ==
  /\ variant = "mock" /\ pc = "awaitChunk"
  /\ draw => failures < MaxFailures
  /\ now' = now + ChunkDelay
  /\ failures' = IF draw THEN failures + 1 ELSE failures
  /\ LET branch == ErrorBranch(ledger, draw, job.skipErrors, i + 1, row, now')
         after == ChunkLedger(branch.ledger, row, now')
         last == row + RowStep >= TotalRowsInTable
     IN  IF branch.abort
         THEN /\ ledger' = branch.ledger
              /\ OnProgress(ledger')
              /\ pc' = "done"
              /\ result' = "resolved"
              /\ UNCHANGED <<i, row, chunkOps, opsAfterCancel>>
         ELSE /\ OnProgress(after)
              /\ row' = row + RowStep
              /\ chunkOps' = chunkOps + 1
              /\ opsAfterCancel' = IF cancelReq
                                   THEN Min(opsAfterCancel + 1, MaxOpsTracked)
                                   ELSE opsAfterCancel
              /\ IF last
                 THEN /\ ledger' = [after EXCEPT !.processedTables = @ + 1]
                      /\ i' = i + 1
                      /\ pc' = IF i + 1 < job.tables THEN "tableLoop" ELSE "complete"
                 ELSE /\ ledger' = after
                      /\ i' = i
                      /\ pc' = "awaitChunk"
              /\ result' = result
  /\ UNCHANGED <<wizard, projection, conn, job, runs, truncated,
                 variant, config, cancelReq, events>>

\* part_007:158-165
MockComplete ==
  /\ variant = "mock" /\ pc = "complete"
  /\ ledger' = CompleteLedger(ledger, now)
  /\ OnProgress(ledger')
  /\ pc' = "done"
  /\ result' = "resolved"
  /\ UNCHANGED <<wizard, projection, conn, job, runs, truncated,
                 variant, config, i, row, now, failures, chunkOps,
                 cancelReq, opsAfterCancel, events>>

\* ---------------------------------------------------------- MigrationPage
\* the engine is suspended at an await, or has returned
Suspended == pc \in {"awaitValidate", "awaitChunk", "awaitFetch", "streaming",
                     "closed", "done"}

\* ProgressTracker.tsx:34, 105  the Cancel button is rendered
isInProgress(s) == s.status \in {"in_progress", "validating"}

\* MigrationPage.tsx:42-46  { ...progress, status: 'canceled', endTime }
canceledProgress(h, time) ==
  [ref |-> "value",
   errAlias |-> (h.ref = "ledger" \/ h.errAlias),
   val |-> [View(h) EXCEPT !.status = "canceled", !.endTime = time]]

\* MigrationPage.tsx:39-50
handleCancel ==
  /\ Suspended
  /\ progress.ref # "null"
  /\ isInProgress(View(progress))
  /\ progress' = canceledProgress(progress, now)
  /\ migrationProgress' = canceledProgress(progress, now)
  /\ cancelReq' = TRUE
  /\ UNCHANGED <<wizard, projection, conn, job, runs, truncated,
                 variant, config, pc, ledger, i, row, now, result, lastSnap,
                 prevSnap, nSnaps, seen, failures, chunkOps, opsAfterCancel,
                 events>>

\* ------------------------------------------- migrationUtils.ts (fetch)
\* the run is completed but overallProgress is left as it was
FetchDoneLedgerNoProgress(l, chunks, batchSize, time) ==
  [l EXCEPT !.processedRows = chunks * batchSize,
            !.currentTableProgress = Hundred,
            !.status = "completed",
            !.endTime = time,
            !.estimatedTimeRemaining = Zero]

\* migrationUtils.ts:123-131  the ledger after the server's answer
FetchDoneLedger(l, chunks, batchSize, time) ==
  [l EXCEPT !.processedRows = chunks * batchSize,
            !.currentTableProgress = Hundred,
            !.overallProgress = Hundred,
            !.status = "completed",
            !.endTime = time,
            !.estimatedTimeRemaining = Zero]

\* migrationUtils.ts:135-147  the ledger of the catch block
FetchFailLedger(l, msg, time) ==
  [l EXCEPT !.status = "failed",
            !.endTime = time,
            !.errors = Append(@, [table |-> 1, row |-> NoRow,
                                  message |-> msg, timestamp |-> time])]

\* migrationUtils.ts:149  the catch block rethrows
FetchCatchResult == "rejected"

\* MigrationPage.tsx:12-21 starts the run; migrationUtils.ts:96-113
FetchStart ==
  /\ variant = "fetch" /\ pc = "idle" /\ ShouldStart
  /\ runs < MaxRuns
  /\ job' = config
  /\ runs' = runs + 1
  /\ ledger' = initializeMigrationProgress("fetch", config.tables, now)
  /\ OnProgress(ledger')
  /\ pc' = "awaitFetch"
  /\ result' = "pending"
  /\ UNCHANGED <<wizard, projection, conn, truncated,
                 variant, config, i, row, now, failures, chunkOps,
                 cancelReq, opsAfterCancel, events>>

\* migrationUtils.ts:115-150  the answer of the POST: fetch rejects
\* ("network"), the response is not ok ("detail"), or it carries a result
FetchResponse(outcome, chunks) ==
  /\ variant = "fetch" /\ pc = "awaitFetch"
  /\ now' = now + 1
  /\ pc' = "done"
  /\ IF outcome = "ok"
     THEN /\ ledger' = FetchDoneLedger(ledger, chunks, job.batchSize, now')
          /\ result' = "resolved"
          /\ failures' = failures
          /\ chunkOps' = chunkOps + chunks
     ELSE /\ ledger' = FetchFailLedger(ledger, outcome, now')
          /\ result' = FetchCatchResult
          /\ failures' = failures + 1
          /\ chunkOps' = chunkOps
  /\ OnProgress(ledger')
  /\ UNCHANGED <<wizard, projection, conn, job, runs, truncated,
                 variant, config, i, row, cancelReq, opsAfterCancel, events>>

\* -------------------------------------------------------- part_006 (sse)
\* the snapshots the progress stream of the server may carry: the server
\* is not part of these sources, its ledger is the one the specification
\* describes (a failed snapshot names its cause, processedRows <= totalRows,
\* a cancelled run reports canceled)
ServerError == [table |-> 1, row |-> NoRow, message |-> "server", timestamp |-> 0]

ServerSnapshots ==
  { s \in { [initializeMigrationProgress("sse", job.tables, 0) EXCEPT
               !.status = st, !.processedRows = pr, !.totalRows = 1,
               !.overallProgress = Frac(pr * 100, 1), !.errors = er] :
             st \in {"in_progress", "completed", "failed", "canceled"},
             pr \in 0..1,
             er \in { << >>, << ServerError >> } } :
      /\ s.status = "failed" => s.errors # << >>
      /\ s.status = "completed" => s.processedRows = s.totalRows }

\* MigrationPage.tsx:12-21 starts the run; part_006:96-103
SseStart ==
  /\ variant = "sse" /\ pc = "idle" /\ ShouldStart
  /\ runs < MaxRuns
  /\ job' = config
  /\ runs' = runs + 1
  /\ pc' = "awaitFetch"
  /\ result' = "pending"
  /\ NoCallback
  /\ UNCHANGED <<wizard, projection, conn, truncated,
                 variant, config, ledger, i, row, now, failures, chunkOps,
                 cancelReq, opsAfterCancel, events>>

\* part_006:105-127  the answer of the POST
SseResponse(ok) ==
  /\ variant = "sse" /\ pc = "awaitFetch"
  /\ now' = now + 1
  /\ IF ok
     THEN /\ pc' = "streaming"
          /\ result' = "resolved"
          /\ failures' = failures
     ELSE /\ pc' = "done"
          /\ result' = "rejected"
          /\ failures' = failures + 1
  /\ NoCallback
  /\ UNCHANGED <<wizard, projection, conn, job, runs, truncated,
                 variant, config, ledger, i, row, chunkOps, cancelReq,
                 opsAfterCancel, events>>

\* part_006:116  the stream is closed on these statuses
SseCloses(s) == s.status \in {"completed", "failed"}

\* part_006:112-119  eventSource.onmessage
SseMessage(data) ==
  /\ variant = "sse" /\ pc = "streaming"
  /\ events < MaxEvents
  /\ events' = events + 1
  /\ now' = now + 1
  /\ ledger' = data
  /\ OnProgress(data)
  /\ pc' = IF SseCloses(data) THEN "closed" ELSE "streaming"
  /\ UNCHANGED <<wizard, projection, conn, job, runs, truncated,
                 variant, config, i, row, result, failures, chunkOps,
                 cancelReq, opsAfterCancel>>

\* part_006:121-124  eventSource.onerror
SseError ==
  /\ variant = "sse" /\ pc = "streaming"
  /\ failures < MaxFailures
  /\ failures' = failures + 1
  /\ pc' = "closed"
  /\ NoCallback
  /\ UNCHANGED <<wizard, projection, conn, job, runs, truncated,
                 variant, config, ledger, i, row, now, result, chunkOps,
                 cancelReq, opsAfterCancel, events>>

\* --------------------------------------------------------- specification
Engine ==
  \/ MockStart
  \/ MockValidate
  \/ MockTableStart
  \/ \E draw \in BOOLEAN : MockChunk(draw)
  \/ MockComplete
  \/ FetchStart
  \/ \E outcome \in {"ok", "detail", "network"}, chunks \in 0..MaxChunksProcessed :
       FetchResponse(outcome, chunks)
  \/ SseStart
  \/ \E ok \in BOOLEAN : SseResponse(ok)
  \/ \E data \in ServerSnapshots : SseMessage(data)
  \/ SseError

Next == Engine \/ handleCancel

Spec == Init /\ [][Next]_vars

\* the timers and the server's answer do arrive
FairSpec == Spec /\ WF_vars(Engine)

\* ------------------------------------------------- the wizard's handlers
run == <<job, runs, truncated, pc, ledger, i, row, now, result, progress, migrationProgress,
         lastSnap, prevSnap, nSnaps, seen, failures, chunkOps, cancelReq,
         opsAfterCancel, events>>

\* reducer SELECT_TABLE, part_000:79-92
SelectTable(tbls, tableName, selected) ==
  [t \in DOMAIN tbls |->
     IF tbls[t].name = tableName THEN [tbls[t] EXCEPT !.selected = selected]
                                 ELSE tbls[t]]

\* reducer SELECT_COLUMN, part_000:93-111
SelectColumn(tbls, tableName, columnName, selected) ==
  [t \in DOMAIN tbls |->
     IF tbls[t].name = tableName
       THEN [tbls[t] EXCEPT !.columns =
               [c \in DOMAIN @ |->
                  IF @[c].name = columnName THEN [@[c] EXCEPT !.selected = selected]
                                            ELSE @[c]]]
       ELSE tbls[t]]

\* TablesPage.tsx:198
canProceed == \E t \in DOMAIN tables : tables[t].selected

\* TableList.tsx:190  the table's checkbox, on the tables step
handleSelectTable(t) ==
  /\ currentStep = "tables"
  /\ tables' = SelectTable(tables, tables[t].name, ~tables[t].selected)
  /\ UNCHANGED <<currentStep, call, projection, conn, variant, config, run>>

\* TableList.tsx:236-243  a column's checkbox, disabled unless its table
\* is selected
handleSelectColumn(t, c) ==
  /\ currentStep = "tables"
  /\ tables[t].selected
  /\ tables' = SelectColumn(tables, tables[t].name, tables[t].columns[c].name,
                            ~tables[t].columns[c].selected)
  /\ UNCHANGED <<currentStep, call, projection, conn, variant, config, run>>

\* TablesPage.tsx:194-196  the Next button, disabled unless canProceed
handleNext ==
  /\ currentStep = "tables"
  /\ canProceed
  /\ currentStep' = "configuration"
  /\ UNCHANGED <<tables, call, projection, conn, variant, config, run>>

\* ConfigurationPage.tsx:29-31
handleBack ==
  /\ currentStep = "configuration"
  /\ currentStep' = "tables"
  /\ UNCHANGED <<tables, call, projection, conn, variant, config, run>>

\* ConfigurationPage.tsx:17-21, 33-46  the page renders the form only with
\* a selected table; Start Migration builds the configuration
handleStartMigration(options) ==
  /\ currentStep = "configuration"
  /\ canProceed
  /\ call' = [units |-> createMigrationTables(variant, tables), options |-> options]
  /\ config' = createMigrationConfig(variant, call'.units, call'.options)
  /\ currentStep' = "migration"
  /\ UNCHANGED <<tables, projection, conn, variant, run>>

WizardNext ==
  \/ \E t \in 1..MaxTables : handleSelectTable(t)
  \/ \E t \in 1..MaxTables, c \in 1..MaxColumns : handleSelectColumn(t, c)
  \/ handleNext
  \/ handleBack
  \/ \E options \in FormOptions : handleStartMigration(options)

WizardSpec == WizInit /\ [][WizardNext]_vars

\* ------------------------------------- createMigrationConfig called directly
\* lists of n units, as createMigrationTables builds them
UnitLists(v) == { createMigrationTables(v, FirstSelected(n)) : n \in 0..MaxTables }

CallCreateMigrationConfig(selectedTables, options) ==
  /\ config = NoConfig
  /\ call' = [units |-> selectedTables, options |-> options]
  /\ config' = createMigrationConfig(variant, selectedTables, options)
  /\ UNCHANGED <<tables, currentStep, projection, conn, variant, run>>

FnNext ==
  \E selectedTables \in UnitLists(variant), options \in PartialOptions(variant) :
    CallCreateMigrationConfig(selectedTables, options)

FnSpec == WizInit /\ [][FnNext]_vars

\* ------------------------------------------ navigation around a run
\* Header.tsx:97-108  the steps StepIndicator lets the user go to
isStepAvailable(stepKey) ==
  CASE stepKey = "connections" -> TRUE
    [] stepKey = "tables" ->
         sourceConnection # NoConnection /\ destinationConnection # NoConnection
    [] stepKey = "configuration" -> canProceed
    [] stepKey = "migration" -> config # NoConfig

\* what a state keeps of an object once its owner no longer changes it
Frozen(h) == IF h.ref = "null" THEN Null ELSE Value(View(h))

\* MigrationPage.tsx:8-10  a new MigrationPage is mounted: its hook state
\* is null and its effect is pending; the app state stays as it is
Mount ==
  /\ pc' = "idle"
  /\ ledger' = NoLedger
  /\ i' = 0
  /\ row' = 0
  /\ result' = "none"
  /\ progress' = Null
  /\ migrationProgress' = Frozen(migrationProgress)
  /\ lastSnap' = NoLedger
  /\ prevSnap' = NoLedger
  /\ nSnaps' = 0
  /\ seen' = {}
  /\ failures' = 0
  /\ chunkOps' = 0
  /\ cancelReq' = FALSE
  /\ opsAfterCancel' = 0
  /\ events' = 0
  /\ UNCHANGED <<job, runs, truncated, now>>

\* Header.tsx:97-108  a click on a step of the indicator.  Leaving the
\* migration step unmounts MigrationPage; entering it mounts a new one.
\* The model follows one run at a time: the step is entered again once
\* the earlier run has returned.
handleStepClick(stepKey) ==
  /\ Suspended
  /\ stepKey # currentStep
  /\ isStepAvailable(stepKey)
  /\ currentStep' = stepKey
  /\ IF stepKey = "migration"
     THEN pc \in {"done", "closed"} /\ Mount
     ELSE /\ progress' = Null
          /\ UNCHANGED <<job, runs, truncated, pc, ledger, i, row, now, result,
                         migrationProgress, lastSnap, prevSnap, nSnaps, seen,
                         failures, chunkOps, cancelReq, opsAfterCancel, events>>
  /\ UNCHANGED <<tables, call, projection, conn, variant, config>>

\* MigrationPage.tsx:90-93, 103
isFinished(s) == s.status \in {"completed", "failed", "canceled"}

\* MigrationPage.tsx:56-60  Start New Migration
handleNewMigration ==
  /\ Suspended
  /\ currentStep = "migration"
  /\ progress.ref # "null"
  /\ isFinished(View(progress))
  /\ config' = NoConfig
  /\ migrationProgress' = Null
  /\ currentStep' = "connections"
  /\ progress' = Null
  /\ UNCHANGED <<tables, call, projection, conn, variant, job, runs, truncated,
                 pc, ledger, i, row, now, result, lastSnap, prevSnap, nSnaps,
                 seen, failures, chunkOps, cancelReq, opsAfterCancel, events>>

NavNext ==
  \/ Next
  \/ \E stepKey \in {"connections", "tables", "configuration", "migration"} :
       handleStepClick(stepKey)
  \/ handleNewMigration

\* the migration step was just entered with one table selected and the
\* form's options but for skipErrors
NavInit ==
  /\ Init
  /\ config.tables = 1
  /\ config.batchSize = 1
  /\ config.skipErrors
  /\ ~config.truncateBeforeInsert

NavSpec == NavInit /\ [][NavNext]_vars

\* ------------------------------------------------- the connections step
Ids(q) == {q[k].id : k \in DOMAIN q}

\* databaseUtils.ts:257-268  the stored connections, or [] when the request
\* fails
loadConnections(ok) == IF ok THEN saved ELSE << >>

\* reducer UPDATE_CONNECTION, part_000:51-57
UpdateConnection(conns, payload) ==
  [k \in DOMAIN conns |-> IF conns[k].id = payload.id THEN payload ELSE conns[k]]

\* reducer REMOVE_CONNECTION, part_000:58-62
RemoveConnection(conns, id) ==
  LET Other(c) == c.id # id IN SelectSeq(conns, Other)

\* part_001:22-32  on mount and on Refresh
loadSavedConnections(ok) ==
  /\ currentStep = "connections"
  /\ connections' = loadConnections(ok)
  /\ UNCHANGED <<wizard, projection, sourceConnection, destinationConnection,
                 saved, variant, config, run>>

\* part_001:34-42  the form made a connection with a fresh id (part_003:20);
\* it is added once the backend has stored it
handleAddConnection(connection, ok) ==
  /\ currentStep = "connections"
  /\ connection.id \notin Ids(connections) \cup Ids(saved)
  /\ IF ok
     THEN /\ saved' = Append(saved, connection)
          /\ connections' = Append(connections, connection)
     ELSE UNCHANGED <<saved, connections>>
  /\ UNCHANGED <<wizard, projection, sourceConnection, destinationConnection,
                 variant, config, run>>

\* part_001:44-47  the form edited a connection of the list (its id is kept)
handleUpdateConnection(connection) ==
  /\ currentStep = "connections"
  /\ connection.id \in Ids(connections)
  /\ connections' = UpdateConnection(connections, connection)
  /\ UNCHANGED <<wizard, projection, sourceConnection, destinationConnection,
                 saved, variant, config, run>>

\* part_001:49-58
handleDeleteConnection(connection) ==
  /\ currentStep = "connections"
  /\ \E k \in DOMAIN connections : connections[k] = connection
  /\ sourceConnection' =
       IF sourceConnection.id = connection.id THEN NoConnection ELSE sourceConnection
  /\ destinationConnection' =
       IF destinationConnection.id = connection.id THEN NoConnection
       ELSE destinationConnection
  /\ connections' = RemoveConnection(connections, connection.id)
  /\ UNCHANGED <<wizard, projection, saved, variant, config, run>>

\* part_004:178-203  a connected card offers Set as Source / Destination
\* unless it is one of them, and Clear when it is (every card has Connect)
CanSet(connection) ==
  /\ \E k \in DOMAIN connections : connections[k] = connection
  /\ connection.id # sourceConnection.id
  /\ connection.id # destinationConnection.id

CanClearSource ==
  /\ sourceConnection # NoConnection
  /\ sourceConnection.id \in Ids(connections)

CanClearDestination ==
  /\ destinationConnection # NoConnection
  /\ destinationConnection.id \in Ids(connections)
  /\ destinationConnection.id # sourceConnection.id

\* part_001:60-66
handleSetSource(connection) ==
  /\ currentStep = "connections"
  /\ IF connection = NoConnection THEN CanClearSource ELSE CanSet(connection)
  /\ sourceConnection' = connection
  /\ currentStep' =
       IF connection # NoConnection /\ destinationConnection # NoConnection
       THEN "tables" ELSE currentStep
  /\ UNCHANGED <<tables, call, projection, connections, destinationConnection,
                 saved, variant, config, run>>

\* part_001:68-74
handleSetDestination(connection) ==
  /\ currentStep = "connections"
  /\ IF connection = NoConnection THEN CanClearDestination ELSE CanSet(connection)
  /\ destinationConnection' = connection
  /\ currentStep' =
       IF connection # NoConnection /\ sourceConnection # NoConnection
       THEN "tables" ELSE currentStep
  /\ UNCHANGED <<tables, call, projection, connections, sourceConnection,
                 saved, variant, config, run>>

\* TablesPage.tsx:190-192  Back, to the connections step
handleBackToConnections ==
  /\ currentStep = "tables"
  /\ currentStep' = "connections"
  /\ UNCHANGED <<tables, call, projection, conn, variant, config, run>>

\* the connections the form can produce
Connections == {Connection(id, name) : id \in 1..MaxConnections, name \in 0..1}

\* part_000:17-27  the app was just opened
ConnInit ==
  /\ variant \in Variants
  /\ tables = LoadedSchema
  /\ currentStep = "connections"
  /\ call = NoCall
  /\ config = NoConfig
  /\ projection = NoProjection
  /\ connections = << >>
  /\ sourceConnection = NoConnection
  /\ destinationConnection = NoConnection
  /\ saved = << >>
  /\ Idle

ConnNext ==
  \/ \E ok \in BOOLEAN : loadSavedConnections(ok)
  \/ \E connection \in Connections, ok \in BOOLEAN : handleAddConnection(connection, ok)
  \/ \E connection \in Connections : handleUpdateConnection(connection)
  \/ \E connection \in Connections : handleDeleteConnection(connection)
  \/ \E connection \in Connections \cup {NoConnection} : handleSetSource(connection)
  \/ \E connection \in Connections \cup {NoConnection} : handleSetDestination(connection)
  \/ handleBackToConnections

ConnSpec == ConnInit /\ [][ConnNext]_vars

\* ------------------------------------- createMigrationTables called directly
\* every selection of tables and columns of the schema (part_000:79-111)
TableLists ==
  { [t \in 1..MaxTables |->
       [ name |-> t, schema |-> "dbo", selected |-> sel[t],
         columns |-> [c \in 1..MaxColumns |-> [name |-> c, selected |-> col[t][c]]] ]] :
    sel \in [1..MaxTables -> BOOLEAN],
    col \in [1..MaxTables -> [1..MaxColumns -> BOOLEAN]] }

TablesInit ==
  /\ variant \in Variants
  /\ tables \in TableLists
  /\ currentStep = "tables"
  /\ call = NoCall
  /\ config = NoConfig
  /\ projection = NoProjection
  /\ Connected
  /\ Idle

\* migrationUtils.ts:39-52  filter and map build new arrays and objects;
\* the argument is only read
CallCreateMigrationTables ==
  /\ Len(projection.outputs) < 2
  /\ projection' =
       [ input |-> IF projection.outputs = << >> THEN tables ELSE projection.input,
         outputs |-> Append(projection.outputs, createMigrationTables(variant, tables)) ]
  /\ UNCHANGED <<wizard, conn, variant, config, run>>

TablesNext == CallCreateMigrationTables

TablesSpec == TablesInit /\ [][TablesNext]_vars

\* ================================================================ claims
Last(q) == q[Len(q)]
EngineBuilt == variant \in {"mock", "fetch"}
Delivered == nSnaps > 0

\* C1: a run with skipErrors = false in which no failure occurred ends with
\* a final snapshot that is completed, at 100 percent, with processedRows
\* equal to totalRows and no errors.
C1_CompletedFinal ==
  (EngineBuilt /\ pc = "done" /\ ~config.skipErrors /\ failures = 0) =>
    /\ lastSnap.status = "completed"
    /\ FracEq(lastSnap.overallProgress, Hundred)
    /\ lastSnap.processedRows = lastSnap.totalRows
    /\ lastSnap.errors = << >>

\* C2: with skipErrors = false the first failure fails the run, with endTime
\* set and a failed snapshot delivered, and the engine then stops: no chunk
\* is processed, nothing is delivered and the ledger never changes again.
C2_FailedNow ==
  (EngineBuilt /\ ~config.skipErrors /\ failures > 0) =>
    /\ failures = 1
    /\ pc = "done"
    /\ ledger.status = "failed"
    /\ ledger.endTime # NoTime
    /\ lastSnap = ledger

C2_FailFast ==
  /\ []C2_FailedNow
  /\ [][(EngineBuilt /\ ledger.status = "failed") =>
          /\ ledger' = ledger
          /\ chunkOps' = chunkOps
          /\ nSnaps' = nSnaps]_vars

C2_Witness ==
  /\ variant = "mock" /\ ~config.skipErrors
  /\ failures = 1 /\ ledger.status = "failed"
  /\ i = 1 /\ row > 0 /\ chunkOps > 0

\* C3: with skipErrors = true every failure of the run is exactly one entry
\* of errors, and the run goes on to completed.
C3_SkipRecords ==
  (variant = "mock" /\ config.skipErrors) =>
    /\ Len(ledger.errors) = failures
    /\ pc = "done" => ledger.status = "completed"

\* C4: after a cancel request the engine processes at most the chunk in
\* flight, and the run ends with status canceled and endTime set.
C4_CancelStops ==
  cancelReq =>
    /\ opsAfterCancel <= 1
    /\ pc = "done" => /\ View(progress).status = "canceled"
                      /\ View(progress).endTime # NoTime

\* C5: once the progress the page holds (hook state and app state) has a
\* terminal status, no step changes that status.
C5_TerminalAbsorbing ==
  [][/\ View(progress).status \in Terminal =>
          View(progress)'.status = View(progress).status
     /\ View(migrationProgress).status \in Terminal =>
          View(migrationProgress)'.status = View(migrationProgress).status]_vars

\* C6: the promise runMigration returns is never rejected.
C6_NeverRejects == result # "rejected"

\* C7: a failed snapshot carries the error that caused the failure as the
\* last entry of errors, and a run that ended in failure delivered one.
C7_FailedHasCause ==
  /\ (Delivered /\ lastSnap.status = "failed") =>
       /\ lastSnap.errors # << >>
       /\ EngineBuilt => Last(lastSnap.errors).timestamp = lastSnap.endTime
  /\ (result = "rejected" \/ ledger.status = "failed") =>
       (Delivered /\ lastSnap.status = "failed")

\* C8: processedRows never decreases from one delivered snapshot to the
\* next.
C8_Monotone ==
  [][EngineBuilt => lastSnap'.processedRows >= lastSnap.processedRows]_vars

C8_Witness ==
  /\ variant = "mock" /\ nSnaps > 3
  /\ prevSnap.processedRows > 0
  /\ lastSnap.processedRows > prevSnap.processedRows
  /\ lastSnap.currentTable = 2

\* C9: in every snapshot with totalRows nonzero, overallProgress is between
\* 0 and 100.
C9_Range ==
  (Delivered /\ lastSnap.totalRows # 0) =>
    /\ FracLeq(Zero, lastSnap.overallProgress)
    /\ FracLeq(lastSnap.overallProgress, Hundred)

C9_Witness ==
  /\ variant = "mock" /\ Delivered /\ lastSnap.totalRows # 0
  /\ lastSnap.processedTables = 1
  /\ ~FracLeq(lastSnap.overallProgress, Frac(50, 1))
  /\ ~FracLeq(Hundred, lastSnap.overallProgress)

\* C10: in every snapshot with processedRows nonzero, processedRows does
\* not exceed totalRows.
C10_ProcessedLeTotal ==
  (EngineBuilt /\ Delivered /\ lastSnap.processedRows # 0) =>
    lastSnap.processedRows <= lastSnap.totalRows

IsPrefix(a, b) == Len(a) <= Len(b) /\ SubSeq(b, 1, Len(a)) = a

\* C11: in the progress the page holds, endTime is set exactly in the
\* terminal statuses and, once set, is never assigned again.
C11_EndTimeOnce ==
  /\ []((EngineBuilt /\ progress.ref # "null") =>
          (View(progress).status \in Terminal <=> View(progress).endTime # NoTime))
  /\ [][(EngineBuilt /\ View(progress).endTime # NoTime) =>
          View(progress)'.endTime = View(progress).endTime]_vars

\* C12: from one delivered snapshot to the next, and in the progress the
\* page holds (across a cancel too), errors only grows at its end.
C12_AppendOnly ==
  [][EngineBuilt =>
       /\ IsPrefix(lastSnap.errors, lastSnap'.errors)
       /\ IsPrefix(View(progress).errors, View(progress)'.errors)]_vars

C12_Witness ==
  /\ variant = "mock" /\ cancelReq
  /\ prevSnap.errors = << >>
  /\ Len(lastSnap.errors) = 1
  /\ View(progress).errors = lastSnap.errors

\* C13: a completed run has processed every unit: processedTables equals
\* totalTables in the completed snapshot.
C13_AllTables ==
  (EngineBuilt /\ Delivered /\ lastSnap.status = "completed") =>
    lastSnap.processedTables = lastSnap.totalTables

\* C14: a completed snapshot has overallProgress 100, estimatedTimeRemaining
\* 0 and endTime set.
C14_Completed ==
  (EngineBuilt /\ Delivered /\ lastSnap.status = "completed") =>
    /\ FracEq(lastSnap.overallProgress, Hundred)
    /\ FracEq(lastSnap.estimatedTimeRemaining, Zero)
    /\ lastSnap.endTime # NoTime

C14_Witness ==
  /\ variant = "mock" /\ config.skipErrors /\ failures > 0
  /\ lastSnap.status = "completed"
  /\ lastSnap.processedTables = 2

\* C15: a validating snapshot is delivered if and only if
\* validateBeforeMigration is set.
C15_ValidatingIff ==
  EngineBuilt =>
    /\ "validating" \in seen => config.validateBeforeMigration
    /\ (pc = "done" /\ config.validateBeforeMigration) => "validating" \in seen

\* C16: what the page reads from the snapshot it holds changes only when it
\* is handed another snapshot (or cancels), never by the engine's later
\* writes to its ledger.
C16_Immutable ==
  [][progress' = progress => View(progress)' = View(progress)]_vars

\* C17: once a snapshot with a terminal status was delivered, the stream is
\* closed and onProgress is not called again.
C17_StreamEnds ==
  /\ []((Delivered /\ lastSnap.status \in Terminal) => pc \in {"done", "closed"})
  /\ [][(Delivered /\ lastSnap.status \in Terminal) => nSnaps' = nSnaps]_vars

\* C18: no configuration holds a unit with an empty list of selected columns.
C18_NoEmptyColumns ==
  config # NoConfig =>
    \A k \in DOMAIN config.units : config.units[k].selectedColumns # << >>

\* C19: createMigrationConfig returns no configuration for an empty list of
\* units.
C19_RejectsEmpty ==
  config # NoConfig => config.units # << >>

\* what createMigrationConfig does with the four options of every variant
C20_Kept(f) == call.options[f] # Omitted => config[f] = call.options[f][1]

C20_FourOptions ==
  /\ config.status = "draft"
  /\ \A f \in {"truncateBeforeInsert", "batchSize", "skipErrors",
                "validateBeforeMigration"} : C20_Kept(f)
  /\ call.options.truncateBeforeInsert = Omitted => config.truncateBeforeInsert = FALSE
  /\ call.options.skipErrors = Omitted => config.skipErrors = FALSE
  /\ call.options.validateBeforeMigration = Omitted => config.validateBeforeMigration = TRUE
  /\ call.options.batchSize = Omitted =>
       config.batchSize = DefaultBatchSize(variant) /\ config.batchSize > 0

Chosen(q) == {k \in DOMAIN q : q[k].selected}
Nth(S, k) == CHOOSE x \in S : Cardinality({y \in S : y < x}) = k - 1

\* C21: createMigrationTables returns one unit per selected table, in input
\* order, with the table's name and schema, its selected columns in column
\* order, and the table's own name as destinationTable; nothing unselected
\* appears.
C21_UnitPerTable ==
  projection.outputs # << >> =>
    LET inp == projection.input
        out == projection.outputs[1]
        sel == Chosen(inp)
    IN  /\ Len(out) = Cardinality(sel)
        /\ \A k \in 1..Len(out) :
             LET t == inp[Nth(sel, k)]
                 cols == Chosen(t.columns)
             IN  /\ out[k].name = t.name
                 /\ out[k].schema = t.schema
                 /\ Len(out[k].selectedColumns) = Cardinality(cols)
                 /\ \A j \in 1..Len(out[k].selectedColumns) :
                      out[k].selectedColumns[j] = t.columns[Nth(cols, j)].name
                 /\ out[k].destinationTable = [name |-> t.name, suffix |-> ""]

WrittenTables ==
  IF chunkOps = 0 THEN {}
  ELSE 1..(IF variant = "mock" THEN Min(i + 1, job.tables) ELSE 1)

\* C23: with truncateBeforeInsert, the destination table of every unit the
\* run has written a chunk of was cleared before.
C23_TruncateFirst ==
  (EngineBuilt /\ config.truncateBeforeInsert) =>
    \A t \in WrittenTables : t \in truncated

\* C24: a run that processed k chunks has delivered at least k snapshots
\* besides the initial and the final one.
C24_SnapshotPerChunk ==
  (EngineBuilt /\ pc = "done") => nSnaps - 2 >= chunkOps

\* C25: when a run with skipErrors = false has failed on a chunk of the k-th
\* table, its final snapshot has processedTables = k - 1 and processedRows
\* equal to the rows of the chunks completed before.
C25_FailCounts ==
  (EngineBuilt /\ ~config.skipErrors /\ Delivered /\ lastSnap.status = "failed") =>
    /\ lastSnap.processedTables = Last(lastSnap.errors).table - 1
    /\ lastSnap.processedRows = chunkOps * RowStep

C25_Witness ==
  /\ variant = "mock" /\ ~config.skipErrors
  /\ lastSnap.status = "failed"
  /\ Last(lastSnap.errors).table = 2
  /\ lastSnap.processedTables = 1
  /\ lastSnap.processedRows > TotalRowsInTable

\* C26: no snapshot with status validating reports processed rows, and no
\* chunk is processed while the status is validating.
C26_ValidateFirst ==
  (variant = "mock" /\ Delivered /\ lastSnap.status = "validating") =>
    /\ lastSnap.processedRows = 0
    /\ chunkOps = 0

\* C27: at every snapshot the status of state.currentMigration equals the
\* status of the snapshot.
C27_StatusMirrors ==
  Delivered => config.status = lastSnap.status

\* C28: whatever the navigation, runMigration is invoked at most once for
\* the configuration held in the app state.
C28_OneRun == runs <= 1

\* C29: while currentMigration is null after Start New Migration,
\* migrationProgress is null.
C29_StaysNull ==
  config = NoConfig => migrationProgress.ref = "null"

\* C30: a source connection and a destination connection that are set have
\* the id of a connection of state.connections.
C30_ConnectionsPresent ==
  /\ sourceConnection # NoConnection => sourceConnection.id \in Ids(connections)
  /\ destinationConnection # NoConnection =>
       destinationConnection.id \in Ids(connections)


====
